---- MODULE Spec2Model ----
(***************************************************************************)
(* Join/membership subsystem of the TCP swarm file server                  *)
(* (src/backup/data-1.rs): the accept loop and its handler threads, the    *)
(* registry behind its Mutex, the role file and the Join Client.           *)
(***************************************************************************)
EXTENDS Integers, Sequences, FiniteSets, TLC

(***************************************************************************)
(* Bounds of the model.                                                    *)
(***************************************************************************)
\* connections the accept loop takes in one run of the model
MaxConns == 2
\* distinct remote ports (the listener is bound to 127.0.0.1, so a remote
\* address is 127.0.0.1:<port>)
NumPorts == 2
\* Join Client runs started in the client's working directory
MaxRuns == 2
\* lines of a role file whose contents are enumerated
MaxFileLines == 2

(***************************************************************************)
(* Text.  A string is a sequence of atoms: a word atom stands for its       *)
(* letters, " " and "\n" are the whitespace the code trims and splits on.   *)
(***************************************************************************)
Whitespace == {" ", "\n"}

RECURSIVE TrimStart(_)
TrimStart(s) ==
    IF s # <<>> /\ Head(s) \in Whitespace THEN TrimStart(Tail(s)) ELSE s

RECURSIVE TrimEnd(_)
TrimEnd(s) ==
    IF s # <<>> /\ s[Len(s)] \in Whitespace
    THEN TrimEnd(SubSeq(s, 1, Len(s) - 1))
    ELSE s

\* str::trim
Trim(s) == TrimEnd(TrimStart(s))

\* str::split(sep).collect(): the pieces between the occurrences of sep; a
\* string with no sep is one piece, the empty string is one empty piece.
RECURSIVE SplitFrom(_, _, _)
SplitFrom(s, sep, cur) ==
    IF s = <<>> THEN <<cur>>
    ELSE IF Head(s) = sep THEN <<cur>> \o SplitFrom(Tail(s), sep, <<>>)
    ELSE SplitFrom(Tail(s), sep, Append(cur, Head(s)))

Split(s, sep) == SplitFrom(s, sep, <<>>)

(***************************************************************************)
(* The wire protocol.                                                      *)
(***************************************************************************)
\* the server's MASTER_KEY, a word
MasterKey == <<"k">>

\* the three response lines, as writeln! gets them (it appends the newline)
RespJoined  == <<"Swam", " ", "has", " ", "been", " ", "joined", "!">>
RespExists  == <<"Server", " ", "already", " ", "exists", "!">>
RespUnknown == <<"Unknown", " ", "command", "!">>

\* str::contains: pat occurs in s as a contiguous run
Contains(s, pat) ==
    \E i \in 0..(Len(s) - Len(pat)) : SubSeq(s, i + 1, i + Len(pat)) = pat

\* what a peer may put on its connection before the handler's read_line
\* returns: a line (with or without its newline) or nothing before it closes
PeerLines ==
    { <<"JOIN", " ", "k", "\n">>,        \* JOIN <correct-secret>
      <<"JOIN", " ", "x", "\n">>,        \* JOIN <wrong-secret>
      <<"JOIN", " ", " ", "k", "\n">>,   \* two spaces: token 1 is empty
      <<"JOIN", "\n">>,                  \* JOIN with no second token
      <<"x", " ", "k", "\n">>,           \* another verb
      <<"JOIN", "k", "\n">>,             \* the word JOINk
      <<>> }                             \* end of stream, no bytes

\* what handle_connection decides from the line it read, before it touches
\* the registry
Commands(line) == Split(Trim(line), " ")

\* Classify without the comparison of the secret
ClassifyNoKey(line) ==
    LET commands == Commands(line) IN
    IF commands[1] = <<"JOIN">>
    THEN IF Len(commands) < 2 THEN "panic" ELSE "auth"
    ELSE "unknown"

\* Classify without the match on the verb
ClassifyAnyVerb(line) ==
    LET commands == Commands(line) IN
    IF Len(commands) < 2 THEN "panic"
    ELSE IF MasterKey = commands[2] THEN "auth"
    ELSE "drop"

\* Classify with the mismatch of the secret sent to the arm of the other
\* verbs (an `else` that answers "Unknown command!")
ClassifyElseUnknown(line) ==
    LET commands == Commands(line) IN
    IF commands[1] = <<"JOIN">>
    THEN IF Len(commands) < 2 THEN "panic"
         ELSE IF MasterKey = commands[2] THEN "auth"
         ELSE "unknown"
    ELSE "unknown"

Classify(line) ==
    LET commands == Commands(line) IN
    IF commands[1] = <<"JOIN">>
    THEN IF Len(commands) < 2 THEN "panic"          \* commands[1] out of bounds
         ELSE IF MasterKey = commands[2] THEN "auth"
         ELSE "drop"
    ELSE "unknown"

(***************************************************************************)
(* Addresses and the registry.                                             *)
(***************************************************************************)
Ports == 1..NumPorts
Addrs == [ip : {"127.0.0.1"}, port : Ports]

Digits == <<"0", "1", "2", "3", "4", "5", "6", "7", "8", "9">>

\* u16::to_string: the decimal digits, most significant first
RECURSIVE ToDigits(_)
ToDigits(n) ==
    IF n < 10 THEN <<Digits[n + 1]>>
    ELSE Append(ToDigits(n \div 10), Digits[(n % 10) + 1])

\* AddrToString that drops the port
AddrIpOnly(a) == <<a.ip>>

\* SocketAddr::to_string, "ip:port"
AddrToString(a) == <<a.ip, ":">> \o ToDigits(a.port)

\* CountRows with the filter on the wrong column value
CountRowsLeft(reg, s) ==
    Cardinality({i \in 1..Len(reg) : reg[i].ip_address = s /\ reg[i].has_left})

\* SELECT COUNT(*) FROM servers WHERE ip_address = ?1
CountRows(reg, s) == Cardinality({i \in 1..Len(reg) : reg[i].ip_address = s})

RECURSIVE MaxId(_)
MaxId(reg) ==
    IF reg = <<>> THEN 0
    ELSE LET m == MaxId(Tail(reg)) IN IF Head(reg).id > m THEN Head(reg).id ELSE m

\* InsertRow that loses the rows written before it
InsertRowOverwrite(reg, s) ==
    <<[id |-> MaxId(reg) + 1, ip_address |-> s,
       is_active |-> TRUE, has_left |-> FALSE]>>

\* INSERT INTO servers (ip_address) VALUES (?1): id from the store, the
\* two flags from the column defaults of build_db
InsertRow(reg, s) ==
    Append(reg, [id |-> MaxId(reg) + 1, ip_address |-> s,
                 is_active |-> TRUE, has_left |-> FALSE])

(***************************************************************************)
(* The role file, config.txt.                                              *)
(***************************************************************************)
NoFile == [exists |-> FALSE, readable |-> FALSE, content |-> <<>>]

TextFile(content) == [exists |-> TRUE, readable |-> TRUE, content |-> content]

\* a file that is there and that fs::read_to_string cannot return (no read
\* permission, bytes that are not UTF-8)
UnreadableFile == [exists |-> TRUE, readable |-> FALSE, content |-> <<>>]

\* str::lines: the pieces between newlines, without a last empty piece
TextLines(content) ==
    LET pieces == Split(content, "\n") IN
    IF pieces[Len(pieces)] = <<>>
    THEN SubSeq(pieces, 1, Len(pieces) - 1)
    ELSE pieces

\* str::split_once('='): <<>> for None, else <<key, value>> around the
\* first '='
RECURSIVE SplitOnceFrom(_, _)
SplitOnceFrom(s, key) ==
    IF s = <<>> THEN <<>>
    ELSE IF Head(s) = "=" THEN <<key, Tail(s)>>
    ELSE SplitOnceFrom(Tail(s), Append(key, Head(s)))

SplitOnce(s) == SplitOnceFrom(s, <<>>)

\* Numbers read from the file are kept as decimal numerals (digit
\* sequences without leading zeros): a u32 does not fit the checker's
\* integers.
IsDigit(ch) == \E i \in 1..10 : Digits[i] = ch
DigitVal(ch) == (CHOOSE i \in 1..10 : Digits[i] = ch) - 1

RECURSIVE StripZeros(_)
StripZeros(s) ==
    IF Len(s) > 1 /\ Head(s) = "0" THEN StripZeros(Tail(s)) ELSE s

\* a <= b, for numerals of one length
RECURSIVE DigitsLeq(_, _)
DigitsLeq(a, b) ==
    IF a = <<>> THEN TRUE
    ELSE IF DigitVal(Head(a)) < DigitVal(Head(b)) THEN TRUE
    ELSE IF DigitVal(Head(a)) > DigitVal(Head(b)) THEN FALSE
    ELSE DigitsLeq(Tail(a), Tail(b))

NumeralLeq(a, b) ==
    Len(a) < Len(b) \/ (Len(a) = Len(b) /\ DigitsLeq(a, b))

\* u32::MAX
U32Max == <<"4", "2", "9", "4", "9", "6", "7", "2", "9", "5">>

\* ParseU32 into a wider type: no overflow error
ParseU32NoLimit(s) ==
    LET digits == IF s # <<>> /\ Head(s) = "+" THEN Tail(s) ELSE s IN
    IF digits = <<>> THEN <<>>
    ELSE IF \E i \in 1..Len(digits) : ~IsDigit(digits[i]) THEN <<>>
    ELSE <<StripZeros(digits)>>

\* value.parse::<u32>(): <<>> for Err, <<n>> for Ok(n).  The empty string
\* and a lone sign are errors (Empty, InvalidDigit), so is any character
\* that is not a digit after one optional '+', so is a value above
\* u32::MAX (PosOverflow).
ParseU32(s) ==
    LET digits == IF s # <<>> /\ Head(s) = "+" THEN Tail(s) ELSE s IN
    IF digits = <<>> THEN <<>>
    ELSE IF \E i \in 1..Len(digits) : ~IsDigit(digits[i]) THEN <<>>
    ELSE IF ~NumeralLeq(StripZeros(digits), U32Max) THEN <<>>
    ELSE <<StripZeros(digits)>>

\* let mut slave_port: u32 = 8777
DefaultPort == 8777

\* the loop of verify_config over the lines, from the state cfg
RECURSIVE ReadConfigLines(_, _)
ReadConfigLines(lines, cfg) ==
    IF lines = <<>> THEN cfg
    ELSE LET kv == SplitOnce(Head(lines))
             next ==
                 IF kv = <<>> THEN cfg
                 ELSE IF kv[1] = <<"master_ip_address">>
                      THEN [cfg EXCEPT !.master_ip_address = kv[2]]
                 ELSE IF kv[1] = <<"slave_port">>
                      THEN IF ParseU32(kv[2]) # <<>>
                           THEN [cfg EXCEPT !.slave_port = ParseU32(kv[2])[1]]
                           ELSE cfg
                 ELSE cfg
         IN ReadConfigLines(Tail(lines), next)

\* verify_config, with the match of connect() on its result: None is the
\* master, Some(config) a member; the expect on read_to_string panics
VerifyConfig(f) ==
    IF ~f.exists THEN [role |-> "Master"]
    ELSE IF ~f.readable THEN [role |-> "panic"]
    ELSE ReadConfigLines(TextLines(f.content),
                         [role |-> "Member", master_ip_address |-> <<>>,
                          slave_port |-> ToDigits(DefaultPort)])

\* format!("master_ip_address={}\nslave_port={}", ip, port) of create_config
ConfigText(ip, port) ==
    <<"master_ip_address", "=", ip, "\n", "slave_port", "=">> \o port

(***************************************************************************)
(* State.                                                                  *)
(***************************************************************************)
VARIABLES
    registry,    \* the servers table: a sequence of rows, in insertion order
    insertedBy,  \* history: insertedBy[i] is the connection whose handler
                 \* inserted registry[i]
    lock,        \* the connection whose handler holds the Mutex guard, or 0
    poisoned,    \* the Mutex is poisoned (a holder panicked)
    accepting,   \* the accept loop of run() is alive
    nconn,       \* connections accepted so far; they are numbered 1..nconn
    addr,        \* addr[c]: the remote address accept() returned for c
    inbox,       \* inbox[c]: <<>> until the peer has sent; then <<line>>
    pc,          \* pc[c]: where the handler thread of c is
    exists,      \* exists[c]: the COUNT(*) the handler of c read
    out,         \* out[c]: the writeln! calls of the handler of c, each
                 \* [line, ok]: ok iff the line reached the connection
    file,        \* config.txt in the working directory of the Join Client
                 \* and of the resolved process: [exists, readable, content]
    writer,      \* history: the Join Client run that wrote file, or 0
    resolved,    \* what verify_config() returned at the last role resolution
    jpc,         \* jpc[r]: where Join Client run r is
    jconn,       \* jconn[r]: the connection of run r at the master, or 0
    jsock,       \* jsock[r]: stream.local_addr() of run r
    jresp        \* jresp[r]: the trimmed response line run r read

serverVars == <<registry, insertedBy, lock, poisoned, accepting, nconn, addr,
                inbox, pc, exists, out>>
clientVars == <<file, writer, resolved, jpc, jconn, jsock, jresp>>
vars == <<serverVars, clientVars>>

Conns == 1..MaxConns

NoAddr == [ip |-> "", port |-> 0]

\* the state after Server::connect(): bound, registry opened (a new table),
\* no connection accepted yet
InitServer ==
    /\ registry = <<>>
    /\ insertedBy = <<>>
    /\ lock = 0
    /\ poisoned = FALSE
    /\ accepting = TRUE
    /\ nconn = 0
    /\ addr = [c \in Conns |-> NoAddr]
    /\ inbox = [c \in Conns |-> <<>>]
    /\ pc = [c \in Conns |-> "none"]
    /\ exists = [c \in Conns |-> 0]
    /\ out = [c \in Conns |-> <<>>]

Runs == 1..MaxRuns

\* no Join Client has run: there is no role file, and connect() resolved
\* this process to the master
InitClient ==
    /\ file = NoFile
    /\ writer = 0
    /\ resolved = VerifyConfig(NoFile)
    /\ jpc = [r \in Runs |-> "start"]
    /\ jconn = [r \in Runs |-> 0]
    /\ jsock = [r \in Runs |-> NoAddr]
    /\ jresp = [r \in Runs |-> <<>>]

(***************************************************************************)
(* run(): the accept loop.                                                 *)
(***************************************************************************)
\* Ok((stream, address)): a thread is spawned on handle_connection; the
\* loop goes on
Accept(a) ==
    /\ accepting
    /\ nconn < MaxConns
    /\ nconn' = nconn + 1
    /\ addr' = [addr EXCEPT ![nconn + 1] = a]
    /\ pc' = [pc EXCEPT ![nconn + 1] = "read"]
    /\ UNCHANGED <<registry, insertedBy, lock, poisoned, accepting, inbox,
                   exists, out>>
    /\ UNCHANGED clientVars

\* AcceptError with the error returned from run() (`accept()?`): the loop ends
AcceptErrorExits ==
    /\ accepting
    /\ accepting' = FALSE
    /\ UNCHANGED <<registry, insertedBy, lock, poisoned, nconn, addr, inbox,
                   pc, exists, out>>
    /\ UNCHANGED clientVars

\* Err(e): logged; the loop goes on
AcceptError ==
    /\ accepting
    /\ UNCHANGED vars

\* the peer of c sends its line, or closes without sending
PeerSend(c, line) ==
    /\ pc[c] = "read"
    /\ inbox[c] = <<>>
    /\ inbox' = [inbox EXCEPT ![c] = <<line>>]
    /\ UNCHANGED <<registry, insertedBy, lock, poisoned, accepting, nconn,
                   addr, pc, exists, out>>
    /\ UNCHANGED clientVars

(***************************************************************************)
(* handle_connection, one thread per connection.                           *)
(***************************************************************************)
\* writeln!(stream, line)?: the line reaches the connection, or the write
\* fails and the handler returns the error
Written(c, line, ok) == [out EXCEPT ![c] = Append(@, [line |-> line, ok |-> ok])]

\* the guard is dropped when the handler leaves the block, also by `?`
Released(c) == IF lock = c THEN 0 ELSE lock

\* stream.try_clone()? or read_line()? fails: Err, before anything is read
ReadFail(c) ==
    /\ pc[c] = "read"
    /\ pc' = [pc EXCEPT ![c] = "readerr"]
    /\ UNCHANGED <<registry, insertedBy, lock, poisoned, accepting, nconn,
                   addr, inbox, exists, out>>
    /\ UNCHANGED clientVars

\* ReadLine with the guard taken before commands[1] is indexed: the panic
\* of a JOIN with no second token then poisons the Mutex
ReadLinePanicLocked(c) ==
    /\ pc[c] = "read"
    /\ inbox[c] # <<>>
    /\ LET kind == Classify(inbox[c][1]) IN
       \/ /\ kind = "unknown"
          /\ \E ok \in BOOLEAN :
                /\ out' = Written(c, RespUnknown, ok)
                /\ pc' = [pc EXCEPT ![c] = IF ok THEN "done" ELSE "err"]
          /\ poisoned' = poisoned
       \/ /\ kind = "panic"
          /\ lock = 0
          /\ pc' = [pc EXCEPT ![c] = "panicked"]
          /\ poisoned' = TRUE
          /\ out' = out
       \/ /\ kind = "drop"
          /\ pc' = [pc EXCEPT ![c] = "done"]
          /\ UNCHANGED <<out, poisoned>>
       \/ /\ kind = "auth"
          /\ pc' = [pc EXCEPT ![c] = "lock"]
          /\ UNCHANGED <<out, poisoned>>
    /\ UNCHANGED <<registry, insertedBy, lock, accepting, nconn,
                   addr, inbox, exists>>
    /\ UNCHANGED clientVars

\* ReadLine run by the accept loop itself, one connection after the other,
\* instead of by a thread per connection
ReadLineSerial(c) ==
    /\ pc[c] = "read"
    /\ \A d \in 1..(c - 1) : pc[d] \in {"done", "err", "readerr", "panicked"}
    /\ inbox[c] # <<>>
    /\ LET kind == Classify(inbox[c][1]) IN
       \/ /\ kind = "unknown"
          /\ \E ok \in BOOLEAN :
                /\ out' = Written(c, RespUnknown, ok)
                /\ pc' = [pc EXCEPT ![c] = IF ok THEN "done" ELSE "err"]
       \/ /\ kind = "panic"
          /\ pc' = [pc EXCEPT ![c] = "panicked"]
          /\ out' = out
       \/ /\ kind = "drop"
          /\ pc' = [pc EXCEPT ![c] = "done"]
          /\ out' = out
       \/ /\ kind = "auth"
          /\ pc' = [pc EXCEPT ![c] = "lock"]
          /\ out' = out
    /\ UNCHANGED <<registry, insertedBy, lock, poisoned, accepting, nconn,
                   addr, inbox, exists>>
    /\ UNCHANGED clientVars

\* read_line returns; trim, split, match commands[0], up to db.lock()
ReadLine(c) ==
    /\ pc[c] = "read"
    /\ inbox[c] # <<>>
    /\ LET kind == Classify(inbox[c][1]) IN
       \/ /\ kind = "unknown"
          /\ \E ok \in BOOLEAN :
                /\ out' = Written(c, RespUnknown, ok)
                /\ pc' = [pc EXCEPT ![c] = IF ok THEN "done" ELSE "err"]
       \/ /\ kind = "panic"
          /\ pc' = [pc EXCEPT ![c] = "panicked"]
          /\ out' = out
       \/ /\ kind = "drop"
          /\ pc' = [pc EXCEPT ![c] = "done"]
          /\ out' = out
       \/ /\ kind = "auth"
          /\ pc' = [pc EXCEPT ![c] = "lock"]
          /\ out' = out
    /\ UNCHANGED <<registry, insertedBy, lock, poisoned, accepting, nconn,
                   addr, inbox, exists>>
    /\ UNCHANGED clientVars

\* Lock without mutual exclusion: the registry handle shared with no Mutex
LockNoMutex(c) ==
    /\ pc[c] = "lock"
    /\ pc' = [pc EXCEPT ![c] = "query"]
    /\ lock' = c
    /\ UNCHANGED <<registry, insertedBy, poisoned, accepting, nconn, addr,
                   inbox, exists, out>>
    /\ UNCHANGED clientVars

\* db.lock().unwrap(): blocks while another handler holds the guard; panics
\* on a poisoned Mutex
Lock(c) ==
    /\ pc[c] = "lock"
    /\ lock = 0
    /\ IF poisoned
       THEN /\ pc' = [pc EXCEPT ![c] = "panicked"]
            /\ lock' = lock
       ELSE /\ pc' = [pc EXCEPT ![c] = "query"]
            /\ lock' = c
    /\ UNCHANGED <<registry, insertedBy, poisoned, accepting, nconn, addr,
                   inbox, exists, out>>
    /\ UNCHANGED clientVars

\* Query with the results unwrapped instead of returned with `?`: a failed
\* SELECT panics with the guard held, and the guard's drop poisons the Mutex
QueryUnwrap(c) ==
    /\ pc[c] = "query"
    /\ \/ /\ exists' = [exists EXCEPT
                            ![c] = CountRows(registry, AddrToString(addr[c]))]
          /\ pc' = [pc EXCEPT ![c] = "respond"]
          /\ UNCHANGED <<lock, poisoned>>
       \/ /\ pc' = [pc EXCEPT ![c] = "panicked"]
          /\ lock' = Released(c)
          /\ poisoned' = TRUE
          /\ exists' = exists
    /\ UNCHANGED <<registry, insertedBy, accepting, nconn, addr, inbox, out>>
    /\ UNCHANGED clientVars

\* prepare + query_row of SELECT COUNT(*); either may fail
Query(c) ==
    /\ pc[c] = "query"
    /\ \/ /\ exists' = [exists EXCEPT
                            ![c] = CountRows(registry, AddrToString(addr[c]))]
          /\ pc' = [pc EXCEPT ![c] = "respond"]
          /\ lock' = lock
       \/ /\ pc' = [pc EXCEPT ![c] = "err"]
          /\ lock' = Released(c)
          /\ exists' = exists
    /\ UNCHANGED <<registry, insertedBy, poisoned, accepting, nconn, addr,
                   inbox, out>>
    /\ UNCHANGED clientVars

\* if exists > 0 { writeln!(already exists) } else { INSERT; writeln!(joined) }
Respond(c) ==
    /\ pc[c] = "respond"
    /\ \/ /\ exists[c] > 0
          /\ \E ok \in BOOLEAN :
                /\ out' = Written(c, RespExists, ok)
                /\ pc' = [pc EXCEPT ![c] = IF ok THEN "unlock" ELSE "err"]
                /\ lock' = IF ok THEN lock ELSE Released(c)
          /\ UNCHANGED <<registry, insertedBy>>
       \/ /\ exists[c] <= 0
          /\ registry' = InsertRow(registry, AddrToString(addr[c]))
          /\ insertedBy' = Append(insertedBy, c)
          /\ \E ok \in BOOLEAN :
                /\ out' = Written(c, RespJoined, ok)
                /\ pc' = [pc EXCEPT ![c] = IF ok THEN "unlock" ELSE "err"]
                /\ lock' = IF ok THEN lock ELSE Released(c)
       \/ /\ exists[c] <= 0        \* db.execute(INSERT)? fails
          /\ pc' = [pc EXCEPT ![c] = "err"]
          /\ lock' = Released(c)
          /\ UNCHANGED <<registry, insertedBy, out>>
    /\ UNCHANGED <<poisoned, accepting, nconn, addr, inbox, exists>>
    /\ UNCHANGED clientVars

\* the end of the `if master_key == ...` block: the guard is dropped, Ok(())
Unlock(c) ==
    /\ pc[c] = "unlock"
    /\ lock' = Released(c)
    /\ pc' = [pc EXCEPT ![c] = "done"]
    /\ UNCHANGED <<registry, insertedBy, poisoned, accepting, nconn, addr,
                   inbox, exists, out>>
    /\ UNCHANGED clientVars

(***************************************************************************)
(* join(): the Join Client, run r in the client's working directory.       *)
(***************************************************************************)
\* MASTER_KEY in the client's environment: <<>> when unset, else <<key>>
ClientKeys == { <<>>, <<MasterKey>>, << <<"x">> >>, << <<>> >> }

LocalIp == "127.0.0.1"

\* format!("JOIN {}", master_key) and the newline of writeln!
JoinCommand(key) == <<"JOIN", " ">> \o key \o <<"\n">>

\* TcpStream::connect succeeded from local port p: the master's accept loop
\* gets the connection as c = nconn + 1, with `sent` on it
Connected(r, p, sent) ==
    /\ accepting
    /\ nconn < MaxConns
    /\ nconn' = nconn + 1
    /\ addr' = [addr EXCEPT ![nconn + 1] = [ip |-> LocalIp, port |-> p]]
    /\ pc' = [pc EXCEPT ![nconn + 1] = "read"]
    /\ inbox' = [inbox EXCEPT ![nconn + 1] = <<sent>>]
    /\ jconn' = [jconn EXCEPT ![r] = nconn + 1]
    /\ jsock' = [jsock EXCEPT ![r] = [ip |-> LocalIp, port |-> p]]

\* JoinStart without the look at the role file
JoinStartNoCheck(r, p, key) ==
    /\ jpc[r] = "start"
    /\ \A q \in 1..(r - 1) : jpc[q] # "start"
    /\ key # <<>>
    /\ Connected(r, p, JoinCommand(key[1]))
    /\ jpc' = [jpc EXCEPT ![r] = "wait"]
    /\ UNCHANGED <<registry, insertedBy, lock, poisoned, accepting, exists,
                   out, file, writer, resolved, jresp>>

\* join() up to the JOIN line: verify_config, connect, local_addr, the
\* environment's key, writeln!
JoinStart(r, p, key) ==
    /\ jpc[r] = "start"
    /\ \A q \in 1..(r - 1) : jpc[q] # "start"   \* runs are numbered as they start
    /\ LET config == VerifyConfig(file) IN
       \/ /\ config.role = "Member"     \* "You are already part of a swarm."
          /\ jpc' = [jpc EXCEPT ![r] = "noop"]
          /\ UNCHANGED <<nconn, addr, pc, inbox, jconn, jsock>>
       \/ /\ config.role = "panic"      \* the expect of verify_config
          /\ jpc' = [jpc EXCEPT ![r] = "panicked"]
          /\ UNCHANGED <<nconn, addr, pc, inbox, jconn, jsock>>
       \/ /\ config.role = "Master"     \* TcpStream::connect(ip_addr)? fails
          /\ jpc' = [jpc EXCEPT ![r] = "failed"]
          /\ UNCHANGED <<nconn, addr, pc, inbox, jconn, jsock>>
       \/ /\ config.role = "Master"     \* MASTER_KEY not set: expect panics,
          /\ key = <<>>                 \* the stream is dropped unused
          /\ Connected(r, p, <<>>)
          /\ jpc' = [jpc EXCEPT ![r] = "panicked"]
       \/ /\ config.role = "Master"
          /\ key # <<>>
          /\ Connected(r, p, JoinCommand(key[1]))
          /\ jpc' = [jpc EXCEPT ![r] = "wait"]
       \/ /\ config.role = "Master"     \* writeln!(stream, command)? fails
          /\ key # <<>>
          /\ Connected(r, p, <<>>)
          /\ jpc' = [jpc EXCEPT ![r] = "failed"]
    /\ UNCHANGED <<registry, insertedBy, lock, poisoned, accepting, exists,
                   out, file, writer, resolved, jresp>>

\* the connection of c is closed by the master: the handler has returned or
\* panicked and its stream is dropped
Closed(c) == pc[c] \in {"done", "err", "readerr", "panicked"}

Delivered(c) == {i \in 1..Len(out[c]) : out[c][i].ok}

\* JoinRead taking every non-empty response line for the success line
JoinReadAnyLine(r) ==
    /\ jpc[r] = "wait"
    /\ \/ /\ Delivered(jconn[r]) # {}
          /\ LET i == CHOOSE j \in Delivered(jconn[r]) :
                          \A k \in Delivered(jconn[r]) : j <= k
             IN jresp' = [jresp EXCEPT
                            ![r] = Trim(out[jconn[r]][i].line \o <<"\n">>)]
       \/ /\ Delivered(jconn[r]) = {}
          /\ Closed(jconn[r])
          /\ jresp' = [jresp EXCEPT ![r] = Trim(<<>>)]
    /\ jpc' = [jpc EXCEPT ![r] = IF jresp'[r] # <<>> THEN "create" ELSE "done"]
    /\ UNCHANGED <<serverVars, file, writer, resolved, jconn, jsock>>

\* reader.read_line(&mut response)?, trim, println!, contains("joined")
JoinRead(r) ==
    /\ jpc[r] = "wait"
    /\ \/ /\ Delivered(jconn[r]) # {}
          /\ LET i == CHOOSE j \in Delivered(jconn[r]) :
                          \A k \in Delivered(jconn[r]) : j <= k
             IN jresp' = [jresp EXCEPT
                            ![r] = Trim(out[jconn[r]][i].line \o <<"\n">>)]
       \/ /\ Delivered(jconn[r]) = {}   \* end of stream: an empty response
          /\ Closed(jconn[r])
          /\ jresp' = [jresp EXCEPT ![r] = Trim(<<>>)]
    /\ jpc' = [jpc EXCEPT
                 ![r] = IF Contains(jresp'[r], <<"joined">>) THEN "create"
                        ELSE "done"]
    /\ UNCHANGED <<serverVars, file, writer, resolved, jconn, jsock>>

\* stream.try_clone()? or read_line()? fails
JoinReadFail(r) ==
    /\ jpc[r] = "wait"
    /\ jpc' = [jpc EXCEPT ![r] = "failed"]
    /\ UNCHANGED <<serverVars, file, writer, resolved, jconn, jsock, jresp>>

\* create_config: if !Path::new(filename).exists()
CreateCheck(r) ==
    /\ jpc[r] = "create"
    /\ jpc' = [jpc EXCEPT ![r] = IF file.exists THEN "done" ELSE "write"]
    /\ UNCHANGED <<serverVars, file, writer, resolved, jconn, jsock, jresp>>

\* create_config: fs::write(filename, data)?, which creates or truncates
\* the file and then writes; on failure the file is as before or empty
CreateWrite(r) ==
    /\ jpc[r] = "write"
    /\ \/ /\ file' = TextFile(ConfigText(jsock[r].ip, ToDigits(jsock[r].port)))
          /\ writer' = r
          /\ jpc' = [jpc EXCEPT ![r] = "written"]
       \/ /\ jpc' = [jpc EXCEPT ![r] = "failed"]
          /\ UNCHANGED <<file, writer>>
       \/ /\ jpc' = [jpc EXCEPT ![r] = "failed"]
          /\ file' = TextFile(<<>>)
          /\ writer' = 0
    /\ UNCHANGED <<serverVars, resolved, jconn, jsock, jresp>>

Handler(c) == ReadLine(c) \/ Lock(c) \/ Query(c) \/ Respond(c) \/ Unlock(c)

Next ==
    \/ \E a \in Addrs : Accept(a)
    \/ AcceptError
    \/ \E c \in Conns, line \in PeerLines : PeerSend(c, line)
    \/ \E c \in Conns : ReadFail(c)
    \/ \E c \in Conns : ReadLine(c)
    \/ \E c \in Conns : Lock(c)
    \/ \E c \in Conns : Query(c)
    \/ \E c \in Conns : Respond(c)
    \/ \E c \in Conns : Unlock(c)

Init == InitServer /\ InitClient

Spec == Init /\ [][Next]_vars

\* The same machine with the peers' lines drawn from one line per way a
\* handler ends (authenticated JOIN, JOIN alone), under the scheduler's
\* fairness: every spawned handler thread keeps being scheduled.  Nothing
\* makes a peer send, and nothing makes a connection arrive.
LiveLines == { <<"JOIN", " ", "k", "\n">>, <<"JOIN", "\n">> }

NextLive ==
    \/ \E a \in Addrs : Accept(a)
    \/ AcceptError
    \/ \E c \in Conns, line \in LiveLines : PeerSend(c, line)
    \/ \E c \in Conns : ReadFail(c)
    \/ \E c \in Conns : ReadLine(c)
    \/ \E c \in Conns : Lock(c)
    \/ \E c \in Conns : Query(c)
    \/ \E c \in Conns : Respond(c)
    \/ \E c \in Conns : Unlock(c)

FairSpec ==
    Init /\ [][NextLive]_vars /\ \A c \in Conns : WF_vars(Handler(c))

(***************************************************************************)
(* The master with Join Clients run against it from one working directory; *)
(* the master's connections are those of the runs.                         *)
(***************************************************************************)
\* the role file before the first run: none, one left by an earlier join,
\* one that cannot be read
JoinFiles ==
    { NoFile, TextFile(ConfigText(LocalIp, ToDigits(1))), UnreadableFile }

InitJoin ==
    /\ InitServer
    /\ file \in JoinFiles
    /\ writer = 0
    /\ resolved = VerifyConfig(NoFile)
    /\ jpc = [r \in Runs |-> "start"]
    /\ jconn = [r \in Runs |-> 0]
    /\ jsock = [r \in Runs |-> NoAddr]
    /\ jresp = [r \in Runs |-> <<>>]

NextJoin ==
    \/ \E r \in Runs, p \in Ports, key \in ClientKeys : JoinStart(r, p, key)
    \/ \E r \in Runs : JoinRead(r)
    \/ \E r \in Runs : JoinReadFail(r)
    \/ \E r \in Runs : CreateCheck(r)
    \/ \E r \in Runs : CreateWrite(r)
    \/ \E c \in Conns : ReadFail(c)
    \/ \E c \in Conns : ReadLine(c)
    \/ \E c \in Conns : Lock(c)
    \/ \E c \in Conns : Query(c)
    \/ \E c \in Conns : Respond(c)
    \/ \E c \in Conns : Unlock(c)

JoinSpec == InitJoin /\ [][NextJoin]_vars

(***************************************************************************)
(* Join Clients run against an address where any program may listen: the   *)
(* connections are those of the runs, and the peer answers what it likes.  *)
(***************************************************************************)
\* the lines a peer may answer: the three of this protocol, an empty line,
\* and lines of another program
ReplyLines ==
    { RespJoined, RespExists, RespUnknown, <<>>,
      <<"Already", " ", "joined">>, <<"Welcome">> }

\* the peer at ip_addr writes one line and closes
PeerReply(c, line) ==
    /\ pc[c] = "read"
    /\ out' = Written(c, line, TRUE)
    /\ pc' = [pc EXCEPT ![c] = "done"]
    /\ UNCHANGED <<registry, insertedBy, lock, poisoned, accepting, nconn,
                   addr, inbox, exists>>
    /\ UNCHANGED clientVars

\* the peer at ip_addr closes the connection with nothing written
PeerClose(c) ==
    /\ pc[c] = "read"
    /\ pc' = [pc EXCEPT ![c] = "done"]
    /\ UNCHANGED <<registry, insertedBy, lock, poisoned, accepting, nconn,
                   addr, inbox, exists, out>>
    /\ UNCHANGED clientVars

\* MASTER_KEY of the runs: the peer's answer does not depend on it
PeerKeys == { <<>>, <<MasterKey>> }

NextClient ==
    \/ \E r \in Runs, p \in Ports, key \in PeerKeys : JoinStart(r, p, key)
    \/ \E r \in Runs : JoinRead(r)
    \/ \E r \in Runs : JoinReadFail(r)
    \/ \E r \in Runs : CreateCheck(r)
    \/ \E r \in Runs : CreateWrite(r)
    \/ \E c \in Conns, line \in ReplyLines : PeerReply(c, line)
    \/ \E c \in Conns : PeerClose(c)

ClientSpec == Init /\ [][NextClient]_vars

(***************************************************************************)
(* The Node Server started in either role: connect() has resolved the role *)
(* from the role file and built the Server, and run() serves.              *)
(***************************************************************************)
\* the role file at startup: none, or the one a Join Client wrote
ServeFiles == { NoFile, TextFile(ConfigText(LocalIp, ToDigits(1))) }

\* Server::connect() returned Ok: connect_master or connect_slave has bound
\* the listener and opened the registry
InitServe ==
    /\ InitServer
    /\ file \in ServeFiles
    /\ writer = 0
    /\ resolved = VerifyConfig(file)
    /\ jpc = [r \in Runs |-> "start"]
    /\ jconn = [r \in Runs |-> 0]
    /\ jsock = [r \in Runs |-> NoAddr]
    /\ jresp = [r \in Runs |-> <<>>]

ServeSpec == InitServe /\ [][Next]_vars

(***************************************************************************)
(* The master stopped and started again in its working directory: its      *)
(* threads and connections are gone, master_node.db is still there.        *)
(***************************************************************************)
\* Restart with a registry created anew (a CREATE TABLE that replaces the
\* existing table)
RestartFresh ==
    /\ registry' = <<>>
    /\ insertedBy' = <<>>
    /\ lock' = 0
    /\ poisoned' = FALSE
    /\ accepting' = TRUE
    /\ nconn' = 0
    /\ addr' = [c \in Conns |-> NoAddr]
    /\ inbox' = [c \in Conns |-> <<>>]
    /\ pc' = [c \in Conns |-> "none"]
    /\ exists' = [c \in Conns |-> 0]
    /\ out' = [c \in Conns |-> <<>>]
    /\ UNCHANGED clientVars

\* the process ends (at any point of any handler) and run_server starts it
\* again: Connection::open on the existing file, CREATE TABLE IF NOT EXISTS,
\* a new Mutex, a new listener and no connection
Restart ==
    /\ registry' = registry
    /\ insertedBy' = <<>>          \* no handler of this process has inserted
    /\ lock' = 0
    /\ poisoned' = FALSE
    /\ accepting' = TRUE
    /\ nconn' = 0
    /\ addr' = [c \in Conns |-> NoAddr]
    /\ inbox' = [c \in Conns |-> <<>>]
    /\ pc' = [c \in Conns |-> "none"]
    /\ exists' = [c \in Conns |-> 0]
    /\ out' = [c \in Conns |-> <<>>]
    /\ UNCHANGED clientVars

\* the peers' lines: the secret, another secret, the secret after another
\* verb
RestartLines ==
    { <<"JOIN", " ", "k", "\n">>, <<"JOIN", " ", "x", "\n">>,
      <<"x", " ", "k", "\n">> }

NextRestart ==
    \/ \E a \in Addrs : Accept(a)
    \/ AcceptError
    \/ \E c \in Conns, line \in RestartLines : PeerSend(c, line)
    \/ \E c \in Conns : ReadFail(c)
    \/ \E c \in Conns : ReadLine(c)
    \/ \E c \in Conns : Lock(c)
    \/ \E c \in Conns : Query(c)
    \/ \E c \in Conns : Respond(c)
    \/ \E c \in Conns : Unlock(c)
    \/ Restart

RestartSpec == Init /\ [][NextRestart]_vars

(***************************************************************************)
(* Role resolution at startup, over role files of every shape.             *)
(***************************************************************************)
RoleKeys ==
    { <<"master_ip_address">>, <<"slave_port">>, <<"listening">>,
      <<" ", "slave_port">> }

RoleValues ==
    { <<>>,
      <<"9", "9", "9", "9">>,
      <<"a", "b", "c">>,
      <<"1", "0", ".", "0", ".", "0", ".", "1">>,
      <<"+", "0", "7">>,
      <<"-", "7">>,
      <<"9", " ">>,
      <<"4", "2", "9", "4", "9", "6", "7", "2", "9", "5">>,
      <<"4", "2", "9", "4", "9", "6", "7", "2", "9", "6">>,
      <<"8", "=", "8">> }

RoleLines ==
    {k \o <<"=">> \o v : k \in RoleKeys, v \in RoleValues}
        \cup { <<>>, <<"slave_port">> }

RECURSIVE JoinLinesOf(_)
JoinLinesOf(lines) ==
    IF lines = <<>> THEN <<>>
    ELSE IF Len(lines) = 1 THEN Head(lines)
    ELSE Head(lines) \o <<"\n">> \o JoinLinesOf(Tail(lines))

RoleFiles ==
    {NoFile, UnreadableFile}
        \cup {TextFile(JoinLinesOf(ls)) :
                 ls \in UNION {[1..n -> RoleLines] : n \in 0..MaxFileLines}}
        \cup {TextFile(JoinLinesOf(ls) \o <<"\n">>) :
                 ls \in UNION {[1..n -> RoleLines] : n \in 1..1}}

InitRole ==
    /\ InitServer
    /\ file \in RoleFiles
    /\ writer = 0
    /\ resolved = [role |-> "none"]
    /\ jpc = [r \in Runs |-> "start"]
    /\ jconn = [r \in Runs |-> 0]
    /\ jsock = [r \in Runs |-> NoAddr]
    /\ jresp = [r \in Runs |-> <<>>]

\* connect(): match Self::verify_config()
Resolve ==
    /\ resolved.role = "none"
    /\ resolved' = VerifyConfig(file)
    /\ UNCHANGED <<serverVars, file, writer, jpc, jconn, jsock, jresp>>

NextRole == Resolve

RoleSpec == InitRole /\ [][NextRole]_vars

(***************************************************************************)
(* Vocabulary of the properties.                                           *)
(***************************************************************************)
Finished == {"done", "err", "readerr", "panicked"}

Accepted == 1..nconn

Sent(c) == inbox[c] # <<>>
Line(c) == inbox[c][1]

\* the tokens of a request line, as the protocol defines them
Tokens(line) == Split(Trim(line), " ")
FirstIsJoin(line) == Tokens(line)[1] = <<"JOIN">>
JoinOnly(line) == FirstIsJoin(line) /\ Len(Tokens(line)) = 1
JoinWrong(line) ==
    FirstIsJoin(line) /\ Len(Tokens(line)) >= 2 /\ Tokens(line)[2] # MasterKey
JoinRight(line) ==
    FirstIsJoin(line) /\ Len(Tokens(line)) >= 2 /\ Tokens(line)[2] = MasterKey

\* the lines that reached the peer of c
Received(c) == {out[c][i].line : i \in {j \in 1..Len(out[c]) : out[c][j].ok}}

\* the connections from address a that sent JOIN <correct-secret>
Joiners(a) == {c \in Accepted : addr[c] = a /\ Sent(c) /\ JoinRight(Line(c))}

RowsOf(a) == {i \in 1..Len(registry) : registry[i].ip_address = AddrToString(a)}

HoldsLock(c) == lock = c \/ pc[c] \in {"query", "respond", "unlock"}

(***************************************************************************)
(* C1: in every reachable state the registry holds at most one row per     *)
(* address among the rows with has_left = false, whatever the number and   *)
(* interleaving of the JOIN handlers.                                      *)
(***************************************************************************)
C1_UniqueAddress ==
    \A i, j \in 1..Len(registry) :
        ( /\ i # j
          /\ ~registry[i].has_left
          /\ ~registry[j].has_left )
        => registry[i].ip_address # registry[j].ip_address

\* two handlers of authenticated JOINs from one address were in flight
\* together (one held the guard while the other waited for it), both have
\* returned Ok, and the address has its row
C1_Witness ==
    \E c, d \in Accepted :
        /\ c # d
        /\ addr[c] = addr[d]
        /\ Sent(c) /\ Sent(d)
        /\ JoinRight(Line(c)) /\ JoinRight(Line(d))
        /\ pc[c] = "unlock"
        /\ pc[d] = "lock"
        /\ Cardinality(RowsOf(addr[c])) = 1

(***************************************************************************)
(* C2 (as stated): for every address A, among the connections from A that  *)
(* sent JOIN <correct-secret>, once their handlers have finished, exactly  *)
(* one has received "Swam has been joined!", every other one has received  *)
(* "Server already exists!", and the registry holds exactly one row for A. *)
(***************************************************************************)
JoinedOf(a) == {c \in Joiners(a) : RespJoined \in Received(c)}

C2_Original ==
    \A a \in Addrs :
        (Joiners(a) # {} /\ \A c \in Joiners(a) : pc[c] \in Finished)
        => /\ Cardinality(JoinedOf(a)) = 1
           /\ \A c \in Joiners(a) \ JoinedOf(a) : Received(c) = {RespExists}
           /\ Cardinality(RowsOf(a)) = 1

(***************************************************************************)
(* C2 (amended): for every address A with no row at the start, among the   *)
(* connections from A that sent JOIN <correct-secret>: at most one         *)
(* receives "Swam has been joined!" and A never has more than one row; a   *)
(* handler that returns without an I/O or registry error has delivered     *)
(* exactly one of the two lines, and then A has its row; and when all of   *)
(* them have returned without error, exactly one has received "Swam has    *)
(* been joined!", every other one "Server already exists!", and the        *)
(* registry holds exactly one row for A.                                   *)
(***************************************************************************)
C2_JoinOncePerAddress ==
    \A a \in Addrs :
        /\ Cardinality(JoinedOf(a)) <= 1
        /\ Cardinality(RowsOf(a)) <= 1
        /\ \A c \in Joiners(a) :
              /\ Len(out[c]) <= 1
              /\ RespExists \in Received(c) => RowsOf(a) # {}
              /\ pc[c] = "done"
                    => /\ Received(c) \in {{RespJoined}, {RespExists}}
                       /\ Cardinality(RowsOf(a)) = 1
        /\ (Joiners(a) # {} /\ \A c \in Joiners(a) : pc[c] = "done")
              => /\ Cardinality(JoinedOf(a)) = 1
                 /\ \A c \in Joiners(a) \ JoinedOf(a) :
                        Received(c) = {RespExists}

\* the authenticated JOINs from one address, MaxConns of them, have all
\* returned Ok: one joined, every other one was told the server exists
C2_Witness ==
    \E a \in Addrs :
        /\ Cardinality(Joiners(a)) = MaxConns
        /\ \A c \in Joiners(a) : pc[c] = "done"
        /\ Cardinality(JoinedOf(a)) = 1
        /\ Cardinality({c \in Joiners(a) : Received(c) = {RespExists}})
              = MaxConns - 1

(***************************************************************************)
(* C3 (as stated): when N connections from N pairwise distinct addresses   *)
(* have each sent JOIN <correct-secret> and all handlers have finished,    *)
(* every one has received "Swam has been joined!" exactly once and the     *)
(* registry holds exactly N rows, all active, one per address.             *)
(***************************************************************************)
AllJoinDistinct ==
    /\ nconn >= 2
    /\ \A c \in Accepted : Sent(c) /\ JoinRight(Line(c))
    /\ \A c, d \in Accepted : c # d => addr[c] # addr[d]

RowsActive ==
    \A i \in 1..Len(registry) : registry[i].is_active /\ ~registry[i].has_left

C3_Original ==
    (AllJoinDistinct /\ \A c \in Accepted : pc[c] \in Finished)
    => /\ \A c \in Accepted : out[c] = <<[line |-> RespJoined, ok |-> TRUE]>>
       /\ Len(registry) = nconn
       /\ RowsActive
       /\ \A c \in Accepted : Cardinality(RowsOf(addr[c])) = 1

(***************************************************************************)
(* C3 (amended): when N connections from N pairwise distinct addresses     *)
(* each send JOIN <correct-secret> concurrently to a master whose registry *)
(* starts empty, every handler finishes; each one that returns without an  *)
(* I/O or registry error has delivered "Swam has been joined!" exactly     *)
(* once and nothing else; and once all have finished the registry holds    *)
(* exactly one active row for each address whose INSERT succeeded and no   *)
(* other row: N rows when no handler failed before its INSERT.             *)
(***************************************************************************)
\* the handler of c got past its INSERT: it went on to write the response
InsertDone(c) == out[c] # <<>>

C3_Safety ==
    (AllJoinDistinct /\ \A c \in Accepted : pc[c] \in Finished)
    => /\ \A c \in Accepted :
             /\ Len(out[c]) <= 1
             /\ \A i \in 1..Len(out[c]) : out[c][i].line = RespJoined
             /\ pc[c] = "done" => out[c] = <<[line |-> RespJoined, ok |-> TRUE]>>
             /\ Cardinality(RowsOf(addr[c])) = (IF InsertDone(c) THEN 1 ELSE 0)
       /\ Len(registry) = Cardinality({c \in Accepted : InsertDone(c)})
       /\ RowsActive
       /\ (\A c \in Accepted : pc[c] = "done") => Len(registry) = nconn

C3_ConcurrentJoins ==
    /\ []C3_Safety
    /\ \A c \in Conns :
          (pc[c] = "read" /\ Sent(c) /\ JoinRight(Line(c))) ~> (pc[c] \in Finished)

\* two JOINs from two addresses were in flight together (one handler held
\* the guard while the other waited); both have returned Ok, two rows
C3_Witness ==
    /\ AllJoinDistinct
    /\ \A c \in Accepted : pc[c] = "done"
    /\ \A c \in Accepted : out[c] = <<[line |-> RespJoined, ok |-> TRUE]>>
    /\ Len(registry) = nconn
    /\ insertedBy # <<>> /\ insertedBy[1] # 1

(***************************************************************************)
(* C4: a connection whose line is JOIN <token> with a token other than the *)
(* shared secret never makes its handler insert a row: the handler never   *)
(* takes the registry lock, never touches the registry and writes nothing, *)
(* whatever the other handlers do meanwhile.                               *)
(***************************************************************************)
InsertedRows(c) == {i \in 1..Len(insertedBy) : insertedBy[i] = c}

C4_WrongSecretNoRow ==
    \A c \in Accepted :
        (Sent(c) /\ JoinWrong(Line(c)))
        => /\ InsertedRows(c) = {}
           /\ ~HoldsLock(c)
           /\ pc[c] \in {"read", "readerr", "done"}
           /\ out[c] = <<>>

\* a JOIN with a wrong secret has been handled while another handler held
\* the guard, and its address has no row
C4_Witness ==
    \E c, d \in Accepted :
        /\ Sent(c) /\ JoinWrong(Line(c))
        /\ pc[c] = "done"
        /\ RowsOf(addr[c]) = {}
        /\ pc[d] = "unlock"
        /\ Len(registry) = 1

(***************************************************************************)
(* C5: for every line read whose first space-separated token is not JOIN   *)
(* (the empty line and the end of stream with no bytes included), the      *)
(* handler writes "Unknown command!" and nothing else, inserts no row and  *)
(* never acquires the registry lock.                                       *)
(***************************************************************************)
C5_UnknownCommand ==
    \A c \in Accepted :
        (Sent(c) /\ ~FirstIsJoin(Line(c)))
        => /\ InsertedRows(c) = {}
           /\ ~HoldsLock(c)
           /\ pc[c] \in {"read", "readerr", "done", "err"}
           /\ pc[c] \in {"read", "readerr"} => out[c] = <<>>
           /\ pc[c] \in {"done", "err"}
                 => out[c] = <<[line |-> RespUnknown, ok |-> (pc[c] = "done")]>>

\* the end of stream with no bytes has been answered "Unknown command!"
\* while the handler of a JOIN held the registry lock with its row inserted
C5_Witness ==
    \E c, d \in Accepted :
        /\ Sent(c) /\ Line(c) = <<>>
        /\ pc[c] = "done" /\ Received(c) = {RespUnknown}
        /\ pc[d] = "unlock" /\ HoldsLock(d)
        /\ Len(registry) = 1

(***************************************************************************)
(* C6: a request line that is JOIN with no second token fails its own      *)
(* connection only.  The handler panics holding nothing: the accept loop   *)
(* stays alive, the registry lock is neither held by the dead thread nor   *)
(* poisoned, no other handler panics, and an authenticated JOIN can still  *)
(* take the lock whenever it is free.                                      *)
(***************************************************************************)
C6_MalformedJoinContained ==
    /\ \A c \in Accepted :
          pc[c] = "panicked"
          => /\ Sent(c) /\ JoinOnly(Line(c))
             /\ lock # c
             /\ InsertedRows(c) = {}
             /\ out[c] = <<>>
    /\ accepting
    /\ ~poisoned
    /\ \A d \in Accepted :
          (pc[d] = "lock" /\ lock = 0) => ENABLED (Lock(d) /\ pc'[d] = "query")

\* a handler has panicked on a bare JOIN, and a connection accepted after
\* it has sent an authenticated JOIN and been served
C6_Witness ==
    \E c, e \in Accepted :
        /\ c < e
        /\ pc[c] = "panicked"
        /\ Sent(e) /\ JoinRight(Line(e)) /\ Received(e) = {RespJoined}
        /\ pc[e] = "done"

(***************************************************************************)
(* C7: a peer that stalls its own connection (it never sends its line, or  *)
(* never reads its response) cannot keep the handler of another accepted   *)
(* connection from completing its exchange: every handler whose peer has   *)
(* sent its line finishes, the authenticated JOINs that need the registry  *)
(* lock included, whatever the other peers do or fail to do.               *)
(***************************************************************************)
C7_NoBlocking ==
    \A c \in Conns : (pc[c] = "read" /\ Sent(c)) ~> (pc[c] \in Finished)

\* the peer of the first connection has sent nothing and its handler still
\* waits, while a JOIN accepted after it has been served
C7_Witness ==
    \E c \in Accepted :
        /\ c > 1
        /\ pc[1] = "read" /\ ~Sent(1)
        /\ Sent(c) /\ JoinRight(Line(c))
        /\ pc[c] = "done" /\ Received(c) = {RespJoined}

(***************************************************************************)
(* C8 (as stated): role resolution depends only on the role file.  Absent: *)
(* Master.  Present: Member, whatever its contents, with slave_port the    *)
(* parsed value of a slave_port line, or 8777 when that line is missing or *)
(* unparseable, and master_ip_address the value of a master_ip_address     *)
(* line, or empty when missing; unknown keys are ignored.                  *)
(***************************************************************************)
\* the place of the first '=' of a line, 0 when it has none
EqPos(line) ==
    IF \E i \in 1..Len(line) : line[i] = "="
    THEN CHOOSE i \in 1..Len(line) :
            line[i] = "=" /\ \A j \in 1..(i - 1) : line[j] # "="
    ELSE 0

HasKey(line, key) ==
    EqPos(line) > 0 /\ SubSeq(line, 1, EqPos(line) - 1) = <<key>>

ValueOf(line) == SubSeq(line, EqPos(line) + 1, Len(line))

Unsigned(v) == IF v # <<>> /\ v[1] = "+" THEN SubSeq(v, 2, Len(v)) ELSE v

\* v is the text of a number that fits 32 bits
IsU32Text(v) ==
    /\ Unsigned(v) # <<>>
    /\ \A i \in 1..Len(Unsigned(v)) : IsDigit(Unsigned(v)[i])
    /\ NumeralLeq(StripZeros(Unsigned(v)), U32Max)

Last(S) == CHOOSE i \in S : \A j \in S : j <= i

ExpectedPort(content) ==
    LET lines == TextLines(content)
        good == {i \in 1..Len(lines) :
                    HasKey(lines[i], "slave_port") /\ IsU32Text(ValueOf(lines[i]))}
    IN IF good = {} THEN <<"8", "7", "7", "7">>
       ELSE StripZeros(Unsigned(ValueOf(lines[Last(good)])))

ExpectedIp(content) ==
    LET lines == TextLines(content)
        there == {i \in 1..Len(lines) : HasKey(lines[i], "master_ip_address")}
    IN IF there = {} THEN <<>> ELSE ValueOf(lines[Last(there)])

ExpectedMember(content) ==
    [role |-> "Member", master_ip_address |-> ExpectedIp(content),
     slave_port |-> ExpectedPort(content)]

C8_Original ==
    resolved.role # "none"
    => /\ ~file.exists => resolved = [role |-> "Master"]
       /\ file.exists => resolved = ExpectedMember(file.content)

(***************************************************************************)
(* C8 (amended): role resolution depends only on the role file.  Absent:   *)
(* Master.  Present and readable as UTF-8 text: Member, whatever its       *)
(* contents, with slave_port the parsed value of a slave_port line (the    *)
(* last one that parses as a u32), or 8777 when that line is missing or    *)
(* unparseable, and master_ip_address the value of a master_ip_address     *)
(* line (the last one), or empty when missing; unknown keys are ignored.   *)
(* Present and not readable: the resolution panics, and there is no role.  *)
(***************************************************************************)
C8_RoleResolution ==
    resolved.role # "none"
    => /\ ~file.exists => resolved = [role |-> "Master"]
       /\ (file.exists /\ file.readable)
             => resolved = ExpectedMember(file.content)
       /\ (file.exists /\ ~file.readable) => resolved = [role |-> "panic"]

\* a file with slave_port=9999, then an unparseable slave_port=abc, and no
\* master_ip_address has resolved to a member on port 9999
C8_Witness ==
    /\ file = TextFile(<<"slave_port", "=", "9", "9", "9", "9", "\n",
                         "slave_port", "=", "a", "b", "c">>)
    /\ resolved = [role |-> "Member", master_ip_address |-> <<>>,
                   slave_port |-> <<"9", "9", "9", "9">>]

(***************************************************************************)
(* C9: when the role file already exists, a Join Client run is a no-op: it *)
(* opens no connection, sends no JOIN line, and leaves the role file and   *)
(* the registry as they are.                                               *)
(***************************************************************************)
C9_Step ==
    \A r \in Runs :
        (jpc[r] = "start" /\ file.exists /\ jpc'[r] # "start")
        => /\ jpc'[r] \in {"noop", "panicked"}
           /\ UNCHANGED <<serverVars, file, writer, jconn, jsock, jresp>>

C9_JoinNoOp ==
    /\ [][C9_Step]_vars
    /\ [](\A r \in Runs : jpc[r] = "noop"
             => (file.exists /\ jconn[r] = 0 /\ jsock[r] = NoAddr))

\* one run has joined and written the role file; the next one, started in
\* the same directory, ended as a no-op with no connection of its own
C9_Witness ==
    \E r, q \in Runs :
        /\ jpc[r] = "written" /\ writer = r
        /\ jpc[q] = "noop" /\ jconn[q] = 0
        /\ nconn = 1 /\ Len(registry) = 1

(***************************************************************************)
(* C10: end to end, whenever a Join Client run persists a role file, the   *)
(* file holds the local IP and port of the connection the run used for its *)
(* JOIN, and the master's registry contains exactly one active row whose   *)
(* address is that IP:port.                                                *)
(***************************************************************************)
ActiveRowsAt(ip, port) ==
    {i \in 1..Len(registry) :
        /\ registry[i].ip_address = <<ip, ":">> \o ToDigits(port)
        /\ registry[i].is_active
        /\ ~registry[i].has_left}

C10_EndToEnd ==
    /\ \A r \in Runs :
          jpc[r] = "written"
          => /\ jconn[r] \in Accepted
             /\ addr[jconn[r]] = jsock[r]
             /\ Cardinality(ActiveRowsAt(jsock[r].ip, jsock[r].port)) = 1
    /\ writer # 0
          => /\ jpc[writer] = "written"
             /\ VerifyConfig(file) =
                    [role |-> "Member",
                     master_ip_address |-> <<jsock[writer].ip>>,
                     slave_port |-> ToDigits(jsock[writer].port)]

\* two runs joined from two ports; one of them wrote the role file
C10_Witness ==
    \E r \in Runs :
        /\ jpc[r] = "written" /\ writer = r
        /\ file.exists
        /\ Len(registry) = 2

(***************************************************************************)
(* C11: at every moment at most one handler thread is between acquiring    *)
(* the registry lock and releasing it, so at most one thread is executing  *)
(* a registry query or insert, for any number of concurrent connections.   *)
(***************************************************************************)
\* the handler of c is past db.lock() and its guard is not yet dropped
InLockedSection(c) == pc[c] \in {"query", "respond", "unlock"}

C11_MutualExclusion ==
    /\ Cardinality({c \in Accepted : InLockedSection(c)}) <= 1
    /\ \A c \in Accepted : InLockedSection(c) => lock = c
    /\ lock # 0 => (lock \in Accepted /\ InLockedSection(lock))

\* the handler of one authenticated JOIN is about to run its SELECT while
\* the handler of another one, from another address, waits at db.lock()
C11_Witness ==
    \E c, d \in Accepted :
        /\ addr[c] # addr[d]
        /\ pc[c] = "query" /\ lock = c
        /\ pc[d] = "lock"

(***************************************************************************)
(* C12: the registry lock is held for exactly the existence check and the  *)
(* insert of an authenticated JOIN: it is acquired after the secret has    *)
(* been validated, and it is released before the handler performs any      *)
(* socket write of the response line.                                      *)
(***************************************************************************)
C12_LockScope ==
    \A c \in Accepted :
        /\ InLockedSection(c) => (Sent(c) /\ JoinRight(Line(c)))
        /\ out[c] # <<>> => ~InLockedSection(c)

(***************************************************************************)
(* C13: the role file is written at most once: once it exists its contents *)
(* never change and it is never deleted, for any sequence or interleaving  *)
(* of Join Client runs (two runs started concurrently in the same working  *)
(* directory included) and server startups.                                *)
(***************************************************************************)
C13_WrittenOnce == [][file.exists => file' = file]_vars

(***************************************************************************)
(* C14 (as stated): a Join Client run whose response is anything other     *)
(* than the success line ("Server already exists!", "Unknown command!", an *)
(* empty line, a closed connection) creates no role file, so the next      *)
(* startup still resolves to Master.                                       *)
(***************************************************************************)
\* run r has read its response, or ended without one
Answered(r) == jpc[r] \notin {"start", "wait"}

\* run r neither is on its way into create_config nor has been there
NoRoleFileBy(r) == jpc[r] \in {"done", "failed", "noop", "panicked"} /\ writer # r

C14_Original ==
    /\ \A r \in Runs :
          (Answered(r) /\ jresp[r] # RespJoined) => NoRoleFileBy(r)
    /\ (\A r \in Runs : jresp[r] # RespJoined)
          => VerifyConfig(file) = [role |-> "Master"]

(***************************************************************************)
(* C14 (amended): a Join Client run whose response does not contain the    *)
(* word "joined" ("Server already exists!", "Unknown command!", an empty   *)
(* line, a closed connection) creates no role file: none of its steps      *)
(* changes the file, and while no run has had a response containing        *)
(* "joined" there is no role file and a startup resolves to Master.        *)
(***************************************************************************)
Success(r) == Contains(jresp[r], <<"joined">>)

C14_NoFileOnFailure ==
    /\ [](\A r \in Runs : (Answered(r) /\ ~Success(r)) => NoRoleFileBy(r))
    /\ [][\A r \in Runs :
             (jpc'[r] # jpc[r] /\ ~Contains(jresp'[r], <<"joined">>))
             => file' = file]_vars
    /\ []((\A r \in Runs : ~Success(r))
             => (file = NoFile /\ VerifyConfig(file) = [role |-> "Master"]))

\* one run was answered "Server already exists!" and another one "Unknown
\* command!"; both have returned and there is no role file
C14_Witness ==
    \E r, q \in Runs :
        /\ jpc[r] = "done" /\ jresp[r] = RespExists
        /\ jpc[q] = "done" /\ jresp[q] = RespUnknown
        /\ file = NoFile

(***************************************************************************)
(* C15: the accept loop never exits: after any accept error and after any  *)
(* handler failure (socket I/O error, registry query or insert error) the  *)
(* server is again accepting, and the failure of one handler changes       *)
(* neither the outcome nor the registry effect of a sibling handler: the   *)
(* failing step touches no sibling's state, leaves the lock free unless a  *)
(* sibling holds it, and leaves the registry as it is except for the row   *)
(* the failing handler itself had inserted.                                *)
(***************************************************************************)
Failed == {"err", "readerr", "panicked"}

C15_State ==
    /\ accepting
    /\ nconn < MaxConns => ENABLED (\E a \in Addrs : Accept(a))
    /\ ~poisoned
    /\ \A c \in Accepted : pc[c] \in Failed => lock # c
    /\ \A d \in Accepted :
          (pc[d] = "lock" /\ lock = 0) => ENABLED (Lock(d) /\ pc'[d] = "query")

C15_Step ==
    \A c \in Accepted :
        (pc[c] \notin Failed /\ pc'[c] \in Failed)
        => /\ accepting'
           /\ nconn' = nconn /\ addr' = addr /\ inbox' = inbox
           /\ \A d \in Accepted \ {c} :
                 pc'[d] = pc[d] /\ out'[d] = out[d] /\ exists'[d] = exists[d]
           /\ lock' = (IF lock = c THEN 0 ELSE lock)
           /\ \/ registry' = registry
              \/ /\ CountRows(registry, AddrToString(addr[c])) = 0
                 /\ registry' = InsertRow(registry, AddrToString(addr[c]))

C15_AcceptLoopSurvives == []C15_State /\ [][C15_Step]_vars

\* the handler of the first connection failed at its SELECT; the loop went
\* on, and an authenticated JOIN accepted after that has been served
C15_Witness ==
    \E d \in Accepted :
        /\ d > 1
        /\ pc[1] = "err" /\ out[1] = <<>> /\ registry # <<>>
        /\ Sent(1) /\ JoinRight(Line(1)) /\ RowsOf(addr[1]) = {}
        /\ pc[d] = "done" /\ Received(d) = {RespJoined}
        /\ accepting

(***************************************************************************)
(* C16: on an authentication mismatch (first token JOIN, second token      *)
(* present but different from the shared secret) the handler writes no     *)
(* response line at all and the connection is closed: the peer observes    *)
(* the end of the stream with zero response bytes.                         *)
(***************************************************************************)
C16_MismatchNoResponse ==
    \A c \in Accepted :
        (Sent(c) /\ JoinWrong(Line(c)))
        => /\ out[c] = <<>>
           /\ Received(c) = {}
           /\ pc[c] # "read" => (Closed(c) /\ pc[c] # "panicked")

\* a line with the secret as its third token (two spaces after JOIN, so the
\* second token is empty) has been handled: nothing written, stream closed
C16_Witness ==
    \E c \in Accepted :
        /\ Sent(c) /\ JoinWrong(Line(c))
        /\ Len(Tokens(Line(c))) = 3 /\ Tokens(Line(c))[3] = MasterKey
        /\ pc[c] = "done"
        /\ out[c] = <<>>

(***************************************************************************)
(* C17: only a process running in the Master role holds and mutates a      *)
(* membership registry: a Node Server started in the Member role (role     *)
(* file present) never inserts a registry row in response to a JOIN.       *)
(***************************************************************************)
C17_OnlyMasterInserts ==
    resolved.role = "Member" => (insertedBy = <<>> /\ registry = <<>>)

(***************************************************************************)
(* C18: no handler thread can panic while it holds the registry lock, so   *)
(* the lock is never left poisoned and every later acquisition by another  *)
(* handler succeeds.  The only panic a request line can trigger (JOIN with *)
(* no second token) happens before the lock is acquired, and every failure *)
(* inside the locked section is returned as an error with the lock         *)
(* released.                                                               *)
(***************************************************************************)
C18_State ==
    /\ ~poisoned
    /\ \A c \in Accepted : pc[c] \in {"panicked", "err"} => lock # c
    /\ \A d \in Accepted :
          pc[d] = "lock"
          => /\ lock = 0 => ENABLED (Lock(d) /\ pc'[d] = "query" /\ lock' = d)
             /\ ~ENABLED (Lock(d) /\ pc'[d] = "panicked")

C18_Step ==
    \A c \in Accepted :
        /\ (pc[c] # "panicked" /\ pc'[c] = "panicked")
              => /\ pc[c] = "read" /\ JoinOnly(Line(c))
                 /\ lock # c /\ lock' = lock
                 /\ ~poisoned'
        /\ (InLockedSection(c) /\ pc'[c] # pc[c] /\ pc'[c] \notin {"respond", "unlock"})
              => /\ pc'[c] \in {"err", "done"}
                 /\ lock = c /\ lock' = 0
                 /\ ~poisoned'

C18_NoPanicUnderLock == []C18_State /\ [][C18_Step]_vars

\* a handler failed inside the locked section (its writeln! after the
\* INSERT), and the handler of a later connection has taken the lock
C18_Witness ==
    \E d, e \in Accepted :
        /\ pc[d] = "err" /\ InsertedRows(d) # {}
        /\ pc[e] = "query" /\ lock = e
        /\ ~poisoned

(***************************************************************************)
(* C19: the registry only grows.  No operation deletes or updates a row;   *)
(* the only mutation is the insert of one row by an authenticated JOIN     *)
(* whose address is absent; so every row of every reachable state has      *)
(* is_active = true and has_left = false, and the set of registered        *)
(* addresses never shrinks, also across restarts of the server, which      *)
(* reuse the existing table.                                               *)
(***************************************************************************)
Addresses(reg) == {reg[i].ip_address : i \in 1..Len(reg)}

\* the step appends one row for the address of an authenticated JOIN that
\* the registry did not hold
C19_Insert(c) ==
    /\ Sent(c) /\ JoinRight(Line(c))
    /\ InLockedSection(c)
    /\ AddrToString(addr[c]) \notin Addresses(registry)
    /\ Len(registry') = Len(registry) + 1
    /\ SubSeq(registry', 1, Len(registry)) = registry
    /\ registry'[Len(registry')].ip_address = AddrToString(addr[c])
    /\ registry'[Len(registry')].id \notin {registry[i].id : i \in 1..Len(registry)}

C19_Step ==
    /\ \/ registry' = registry
       \/ \E c \in Accepted : C19_Insert(c)
    /\ Addresses(registry) \subseteq Addresses(registry')

C19_RegistryGrows ==
    /\ [](\A i \in 1..Len(registry) :
             registry[i].is_active /\ ~registry[i].has_left)
    /\ [][C19_Step]_vars

\* the server was started again on a registry with one row: a JOIN from
\* that row's address was answered "Server already exists!", and a JOIN
\* from another address has added the second row
C19_Witness ==
    /\ Len(registry) = 2
    /\ Len(insertedBy) = 1
    /\ \E c \in Accepted :
          /\ Received(c) = {RespExists}
          /\ registry[1].ip_address = AddrToString(addr[c])

====
